---- MODULE Spec2Model ----
\* Face-recognition attendance system: the Milvus-backed identity store
\* (face_database_manager.py), the recognition session and its daily ledger
\* (recognition_system.py), the flat-file programs (create_database.py,
\* attendance_system.py), the report readers (attendance_dashboard.py) and
\* the Tk application with its recognition thread (attendance_app.py).
EXTENDS Integers, Sequences, FiniteSets, TLC

----------------------------------------------------------------------------
\* Bounds of the model

MaxSamples == 2    \* sample files a person directory holds at most
MaxSessions == 2   \* recognition sessions started in one behaviour
MaxLines == 2      \* lines of face_db/metadata.txt

----------------------------------------------------------------------------
\* Values

Ids == {"P1", "P2"}                          \* registration numbers
Dates == {1, 2}                              \* calendar dates
\* 2-d stand-ins for the 512-d embeddings, all of norm 5, so that cosine
\* similarities are exact in hundredths: 100, 96, 80, 60, 0.
Pool == {<<5, 0>>, <<4, 3>>, <<3, 4>>, <<0, 5>>}
SamplePool == {<<5, 0>>, <<3, 4>>}           \* faces shown while collecting samples
Thresholds == {40, 60}                       \* session thresholds, in hundredths
FullNames == {"", "Ann"}                     \* the name field of the form
NoMatch == "None"                            \* Python's None as a match id

Header == <<"ID", "Name", "Time", "Status">>
FlatHeader == <<"ID", "Time", "Status">>
FlatDistance == 40                           \* hundredths

\* metric_type COSINE / np.dot(a, b) / (norm(a) * norm(b)), in hundredths
Dot(u, v) == u[1] * v[1] + u[2] * v[2]

ISqrt(n) == CHOOSE r \in 0..n : r * r <= n /\ (r + 1) * (r + 1) > n

Norm(u) == ISqrt(Dot(u, u))

Cosine(u, v) == (Dot(u, v) * 100) \div (Norm(u) * Norm(v))

----------------------------------------------------------------------------
VARIABLES
    collection,         \* rows of the Milvus collection face_datastore
    unsynced,           \* inserted rows no search or query can see yet
    consistency_level,  \* consistency level of the collection
    has_collection,     \* utility.has_collection("face_datastore")
    samples_dir,        \* face_samples/<id>/*.npy: id -> sequence of embeddings
    files,              \* attendance_<date>.csv: date -> sequence of rows (<<>>: no file)
    today,              \* the calendar date
    pc,                 \* where the recognition worker is
    threshold,          \* FaceRecognitionSystem.threshold of the session
    mark_attendance,    \* the session's mark_attendance argument
    attendance_file,    \* the date of the session's ledger file (0: none)
    recognized_persons, \* the session's already-recorded set
    top_match,          \* the search hit _find_best_match holds before it reads the metadata
    sessions,           \* sessions started so far
    face_db,            \* face_db/<id>.npy: id -> embedding, or <<>> for no file
    metadata_txt,       \* face_db/metadata.txt: sequence of <<id, image name>>
    fpc,                \* where attendance_system.mark_attendance is
    loaded_db,          \* the face_db it loaded at start
    flat_file,          \* the date of its ledger file (0: none)
    marked_attendance,  \* its already-recorded set
    last,               \* the last completed call and what it returned
    trip,               \* history: an enrolment and the removal that follows it at once
    milvus_up,          \* the Milvus server accepts connections
    db_manager,         \* AttendanceSystemApp.db_manager: "None" or "connected"
    tab,                \* the selected tab of the notebook
    stop_recognition,   \* AttendanceSystemApp.stop_recognition
    recognition_active, \* AttendanceSystemApp.recognition_active
    camera_active,      \* AttendanceSystemApp.camera_active
    camera_cap,         \* AttendanceSystemApp.camera_cap: "None" or "opened"
    wpc,                \* where each recognition thread is
    wcap,               \* the recognition threads whose cap is open
    cpc,                \* where the collection thread is
    start_recog_btn,    \* state of the Start/Stop Recognition button (TRUE: NORMAL)
    start_recog_preview_btn,  \* state of the preview button of the recognition tab
    start_preview_btn,  \* state of the three buttons of the registration tab
    pending,            \* root.after(0, ...) callbacks not yet run
    window              \* the root window: "open", "closing", "destroyed"

storeVars == <<collection, unsynced, consistency_level, has_collection, samples_dir>>
sessionVars == <<pc, threshold, mark_attendance, attendance_file,
                 recognized_persons, top_match, sessions>>
flatVars == <<face_db, metadata_txt, fpc, loaded_db, flat_file, marked_attendance>>
appVars == <<milvus_up, db_manager, tab, stop_recognition, recognition_active,
             camera_active, camera_cap, wpc, wcap, cpc, start_recog_btn,
             start_recog_preview_btn, start_preview_btn, pending, window>>
vars == <<collection, unsynced, consistency_level, has_collection, samples_dir, files, today,
          pc, threshold, mark_attendance, attendance_file, recognized_persons,
          top_match, sessions, face_db, metadata_txt, fpc, loaded_db, flat_file,
          marked_attendance, last, trip, milvus_up, db_manager, tab, stop_recognition,
          recognition_active, camera_active, camera_cap, wpc, wcap, cpc,
          start_recog_btn, start_recog_preview_btn, start_preview_btn, pending, window>>

\* No enrolment has just happened
NoTrip == [id |-> NoMatch, before |-> {}, removed |-> FALSE]

\* What a call returned: op the call, id its argument (for a match, the id it
\* returned), result its outcome, name and score the rest of a match result,
\* best the top-1 score the search reported (-1: no hit), query the face
\* embedding a match was asked for, persons the entries a list call returned,
\* stats the Total, Present and Absent figures a report showed for a date.
NoQuery == <<0, 0>>

NoStats == [date |-> 0, total |-> 0, present |-> 0, absent |-> 0]

Reported(op, date, total, present, absent) ==
    [op |-> op, id |-> NoMatch, result |-> "ok", name |-> "", score |-> 0, best |-> -1,
     query |-> NoQuery, persons |-> {},
     stats |-> [date |-> date, total |-> total, present |-> present, absent |-> absent]]

Returned(op, id, result) ==
    [op |-> op, id |-> id, result |-> result, name |-> "", score |-> 0, best |-> -1,
     query |-> NoQuery, persons |-> {}, stats |-> NoStats]

\* faulty variant: a face is reported as a match whatever the search gave
MatchedAnyway(op, q, id, name, score, best) ==
    [op |-> op, id |-> id, result |-> "Match",
     name |-> name, score |-> score, best |-> best, query |-> q, persons |-> {}, stats |-> NoStats]

Matched(op, q, id, name, score, best) ==
    [op |-> op, id |-> id, result |-> IF id = NoMatch THEN "Unknown" ELSE "Match",
     name |-> name, score |-> score, best |-> best, query |-> q, persons |-> {}, stats |-> NoStats]

Listed(persons) ==
    [op |-> "list", id |-> NoMatch, result |-> "ok", name |-> "", score |-> 0,
     best |-> -1, query |-> NoQuery, persons |-> persons, stats |-> NoStats]

----------------------------------------------------------------------------
\* The Milvus collection

\* collection.query / collection.search see the rows the backend has made visible
Visible == collection \ unsynced

MetaRows(rows) == {r \in rows : r.is_embedding = 0}

EmbeddingRows(rows) == {r \in rows : r.is_embedding = 1}

\* collection.insert(entities): the rows are stored; under any level weaker
\* than Strong they are not visible to reads until the backend synchronises
Insert(rows) ==
    /\ collection' = collection \cup rows
    /\ unsynced' = IF consistency_level = "Strong" THEN unsynced ELSE unsynced \cup rows

\* faulty variant: the rows go by dropping the collection, as _save_metadata does
DeleteByDrop(ids) ==
    /\ collection' = {}
    /\ unsynced' = {}

\* collection.delete("id in [...]")
Delete(ids) ==
    /\ collection' = {r \in collection : r.id \notin ids}
    /\ unsynced' = {r \in unsynced : r.id \notin ids}

\* the backend makes every inserted row visible
BackendSync ==
    /\ unsynced # {}
    /\ unsynced' = {}
    /\ UNCHANGED <<appVars, collection, consistency_level, has_collection, samples_dir, files, today,
                   sessionVars, flatVars, last, trip>>

----------------------------------------------------------------------------
\* face_sample_collector.py

\* collect_face_samples: every capture saves one embedding file in the
\* person directory; the run ends after es, complete or interrupted
CollectFaceSamples(x, es) ==
    /\ Len(samples_dir[x]) + Len(es) <= MaxSamples
    /\ samples_dir' = [samples_dir EXCEPT ![x] = samples_dir[x] \o es]
    /\ last' = Returned("collect", x, "ok")
    /\ trip' = NoTrip
    /\ UNCHANGED <<appVars, collection, unsynced, consistency_level, has_collection, files, today,
                   sessionVars, flatVars>>

----------------------------------------------------------------------------
\* face_database_manager.py

EmbeddingRow(x, i, e, full_name, n) ==
    [id |-> <<x, "emb", i>>, embedding |-> e, registration_number |-> x,
     full_name |-> full_name, is_embedding |-> 1, sample_count |-> n,
     sample_index |-> i]

MetadataRow(x, full_name, n) ==
    [id |-> <<x, "meta">>, embedding |-> <<0, 0>>, registration_number |-> x,
     full_name |-> full_name, is_embedding |-> 0, sample_count |-> n,
     sample_index |-> -1]

\* the entities register_person builds from the sample files: one row per
\* embedding, then the metadata row with its dummy vector
Entities(x, full_name, embedding_files) ==
    {EmbeddingRow(x, i - 1, embedding_files[i], full_name, Len(embedding_files)) :
         i \in 1..Len(embedding_files)}
    \cup {MetadataRow(x, full_name, Len(embedding_files))}

\* faulty variant: the empty-sample check is missing
NoSamplesIgnored(embedding_files) == FALSE

\* if not embedding_files (after both glob patterns)
NoSamplesFound(embedding_files) == Len(embedding_files) = 0

RegisterPerson(x, full_name) ==
    LET results == {r \in Visible : r.registration_number = x /\ r.is_embedding = 0}
        embedding_files == samples_dir[x]
        rows == Entities(x, full_name, embedding_files)
    IN  /\ has_collection      \* self.collection, which __init__ created
        /\ IF results # {}
           THEN /\ last' = Returned("register", x, "AlreadyExists")
                /\ trip' = NoTrip
                /\ UNCHANGED <<collection, unsynced, samples_dir>>
           ELSE IF NoSamplesFound(embedding_files)
           THEN /\ last' = Returned("register", x, "NoSamples")
                /\ trip' = NoTrip
                /\ UNCHANGED <<collection, unsynced, samples_dir>>
           ELSE /\ Insert(rows)
                /\ samples_dir' = [samples_dir EXCEPT ![x] = <<>>]
                /\ last' = Returned("register", x, "ok")
                /\ trip' = [id |-> x, before |-> collection, removed |-> FALSE]
        /\ UNCHANGED <<appVars, consistency_level, has_collection, files, today, sessionVars, flatVars>>

\* faulty variant: the removal query carries the metadata filter of the other queries
RemoveQueryMetadataOnly(x) ==
    {r \in Visible : r.registration_number = x /\ r.is_embedding = 0}

\* collection.query(expr="registration_number == '<x>'")
RemoveQuery(x) == {r \in Visible : r.registration_number = x}

RemovePerson(x) ==
    LET results == RemoveQuery(x)
        ids_to_delete == {r.id : r \in results}
    IN  /\ has_collection
        /\ IF results = {}
           THEN /\ last' = Returned("remove", x, "NotFound")
                /\ trip' = NoTrip
                /\ UNCHANGED <<collection, unsynced>>
           ELSE /\ Delete(ids_to_delete)
                /\ last' = Returned("remove", x, "ok")
                /\ trip' = IF trip.id = x /\ ~trip.removed
                           THEN [trip EXCEPT !.removed = TRUE]
                           ELSE NoTrip
        /\ UNCHANGED <<appVars, consistency_level, has_collection, samples_dir, files, today, sessionVars,
                       flatVars>>

\* the metadata dict, as its set of entries
PersonEntries(rows) ==
    {[registration_number |-> r.registration_number, full_name |-> r.full_name,
      sample_count |-> r.sample_count] : r \in MetaRows(rows)}

ListRegisteredPersons ==
    /\ has_collection
    /\ last' = Listed(PersonEntries(Visible))
    /\ trip' = NoTrip
    /\ UNCHANGED <<appVars, storeVars, files, today, sessionVars, flatVars>>

----------------------------------------------------------------------------
\* recognition_system.py

NoHit == [registration_number |-> NoMatch, score |-> -1, embedding |-> NoQuery,
          id |-> <<>>]

\* the score of a hit: the cosine similarity, 0 against the dummy zero vector
HitScore(q, r) == IF Norm(r.embedding) = 0 THEN 0 ELSE Cosine(q, r.embedding)

\* faulty variant: the search carries no expr and ranks the metadata rows too
TopHitsUnfiltered(q) ==
    {r \in Visible : \A o \in Visible : HitScore(q, o) <= HitScore(q, r)}

Now == "HH:MM:SS"

\* faulty variant: the search ranks by distance and returns the farthest row
TopHitsFarthest(q) ==
    LET rows == EmbeddingRows(Visible)
    IN  {r \in rows : \A o \in rows : Cosine(q, o.embedding) >= Cosine(q, r.embedding)}

\* collection.search(limit=1, expr="is_embedding == 1"): the rows that can come
\* back as the top-1 hit; rows of equal score come back in no defined order
TopHits(q) ==
    LET rows == EmbeddingRows(Visible)
    IN  {r \in rows : \A o \in rows : Cosine(q, o.embedding) <= Cosine(q, r.embedding)}

\* _load_person_database, then metadata.get(reg_num, {}).get("full_name", "Unknown")
FullNameOf(reg_num) ==
    LET results == {r \in MetaRows(Visible) : r.registration_number = reg_num}
    IN  IF results = {} THEN {"Unknown"} ELSE {r.full_name : r \in results}

\* faulty variant: the file is opened for writing whether it exists or not
AttendanceFileRewritten(f, date) == [f EXCEPT ![date] = <<Header>>]

\* if not os.path.exists(attendance_file): write the header
AttendanceFileCreated(f, date) ==
    IF f[date] = <<>> THEN [f EXCEPT ![date] = <<Header>>] ELSE f

\* recognize_from_webcam from the opened camera to the frame loop, which the
\* worker enters at the place given
SessionOpened(th, mark, at) ==
    /\ pc = "idle"
    /\ sessions < MaxSessions
    /\ sessions' = sessions + 1
    /\ threshold' = th
    /\ mark_attendance' = mark
    /\ recognized_persons' = {}
    /\ top_match' = NoHit
    /\ IF mark
       THEN /\ attendance_file' = today
            /\ files' = AttendanceFileCreated(files, today)
       ELSE /\ attendance_file' = 0
            /\ UNCHANGED files
    /\ pc' = at
    /\ last' = Returned("start", NoMatch, "ok")

\* recognize_from_webcam up to the first frame read
RecognizeStart(th, mark) ==
    /\ SessionOpened(th, mark, "loop")
    /\ UNCHANGED <<appVars, trip, storeVars, today, flatVars>>

\* _find_best_match, first half: the has_collection test and the vector
\* search for one detected face
Search(q) ==
    /\ pc = "loop"
    /\ IF ~has_collection \/ TopHits(q) = {}
       THEN /\ last' = Matched("match", q, NoMatch, "", 0, -1)
            /\ UNCHANGED <<pc, top_match>>
       ELSE /\ \E top \in TopHits(q) :
                  top_match' = [registration_number |-> top.registration_number,
                                score |-> HitScore(q, top),
                                embedding |-> q, id |-> top.id]
            /\ pc' = "meta"
            /\ UNCHANGED last
    /\ UNCHANGED <<appVars, trip, storeVars, files, today, threshold, mark_attendance,
                   attendance_file, recognized_persons, sessions, flatVars>>

\* faulty variant: the threshold is applied in the inverted sense
AcceptedInverted(similarity) == similarity <= threshold

\* if similarity >= self.threshold
Accepted(similarity) == similarity >= threshold

\* faulty variant: the row is appended without looking at the set
MarkEveryTime(reg_num, full_name) ==
    IF mark_attendance
    THEN /\ files' = [files EXCEPT ![attendance_file] =
                          Append(@, <<reg_num, full_name, Now, "Present">>)]
         /\ recognized_persons' = recognized_persons \cup {reg_num}
    ELSE UNCHANGED <<files, recognized_persons>>

\* faulty variant: the row is appended whether marking was asked for or not
MarkUnasked(reg_num, full_name) ==
    IF reg_num \notin recognized_persons
    THEN /\ files' = [files EXCEPT ![today] =
                          Append(@, <<reg_num, full_name, Now, "Present">>)]
         /\ recognized_persons' = recognized_persons \cup {reg_num}
    ELSE UNCHANGED <<files, recognized_persons>>

\* the row the session appends for a recognised person not yet in its set
MarkIfNew(reg_num, full_name) ==
    IF mark_attendance /\ reg_num \notin recognized_persons
    THEN /\ files' = [files EXCEPT ![attendance_file] =
                          Append(@, <<reg_num, full_name, Now, "Present">>)]
         /\ recognized_persons' = recognized_persons \cup {reg_num}
    ELSE UNCHANGED <<files, recognized_persons>>

\* _find_best_match, second half (the metadata read and the threshold), and
\* what the frame loop does with its result
ResolveNamed(names) ==
    /\ pc = "meta"
    /\ \E name \in names :
          IF Accepted(top_match.score)
          THEN /\ MarkIfNew(top_match.registration_number, name)
               /\ last' = Matched("match", top_match.embedding,
                                  top_match.registration_number, name,
                                  top_match.score, top_match.score)
          ELSE /\ UNCHANGED <<files, recognized_persons>>
               /\ last' = Matched("match", top_match.embedding, NoMatch, "", 0,
                                  top_match.score)
    /\ top_match' = NoHit
    /\ pc' = "loop"
    /\ UNCHANGED <<appVars, trip, storeVars, today, threshold, mark_attendance, attendance_file,
                   sessions, flatVars>>

\* the name comes from the metadata rows _load_person_database reads
Resolve == ResolveNamed(FullNameOf(top_match.registration_number))

\* The matchers of FaceDatabaseManager and FaceSampleCollector search another
\* collection, face_embeddings, which FaceSampleCollector.register_person
\* fills with one row per sample file and nothing else
LegacyMatchers == {"manager", "collector"}

LegacyRow(x, i, e) == [id |-> <<x, "sample", i>>, embedding |-> e, registration_number |-> x,
                       name |-> "Ann"]

LegacyCollections ==
    {UNION {{LegacyRow(x, i - 1, f[x][i]) : i \in 1..Len(f[x])} : x \in Ids} :
         f \in [Ids -> {<<>>} \cup {<<e>> : e \in SamplePool}]}

\* collection.search(limit=1) without expr
LegacyTopHits(q, rows) ==
    {r \in rows : \A o \in rows : Cosine(q, o.embedding) <= Cosine(q, r.embedding)}

\* _find_best_match of the two classes up to the hit, over a face_embeddings
\* collection that exists or not; the manager tests has_collection, the
\* collector runs into the exception, both return (None, None, 0)
LegacySearch(who, q) ==
    /\ pc = "idle"
    /\ \E exists \in BOOLEAN, rows \in LegacyCollections :
          IF ~exists \/ rows = {}
          THEN /\ last' = Matched(who, q, NoMatch, "", 0, -1)
               /\ UNCHANGED <<pc, top_match>>
          ELSE /\ \E top \in LegacyTopHits(q, rows) :
                     top_match' = [registration_number |-> top.registration_number,
                                   score |-> Cosine(q, top.embedding),
                                   embedding |-> q, id |-> top.id]
               /\ pc' = who
               /\ UNCHANGED last
    /\ UNCHANGED <<appVars, trip, storeVars, files, today, threshold, mark_attendance,
                   attendance_file, recognized_persons, sessions, flatVars>>

\* if similarity >= self.threshold: neither class has a threshold attribute,
\* the AttributeError is caught and the answer is (None, None, 0)
LegacyResolve ==
    /\ pc \in LegacyMatchers
    /\ last' = Matched(pc, top_match.embedding, NoMatch, "", 0, top_match.score)
    /\ top_match' = NoHit
    /\ pc' = "idle"
    /\ UNCHANGED <<appVars, trip, storeVars, files, today, threshold, mark_attendance,
                   attendance_file, recognized_persons, sessions, flatVars>>

\* the loop ends (stop flag, failed read) and recognize_from_webcam returns
RecognizeStop ==
    /\ pc = "loop"
    /\ pc' = "idle"
    /\ last' = Returned("stop", NoMatch, "ok")
    /\ UNCHANGED <<appVars, trip, storeVars, files, today, threshold, mark_attendance,
                   attendance_file, recognized_persons, top_match, sessions, flatVars>>

\* midnight: datetime.now() moves to the next date
NextDay ==
    /\ today + 1 \in Dates
    /\ today' = today + 1
    /\ UNCHANGED <<appVars, trip, storeVars, files, sessionVars, flatVars, last>>

----------------------------------------------------------------------------
\* create_database.py and attendance_system.py (flat files)

\* register_face on an image in which app.get finds the faces given
RegisterFace(x, faces, image) ==
    /\ IF Len(faces) = 0
       THEN /\ last' = Returned("register_face", x, "No face detected")
            /\ UNCHANGED <<face_db, metadata_txt>>
       ELSE IF Len(faces) > 1
       THEN /\ last' = Returned("register_face", x, "Multiple faces detected")
            /\ UNCHANGED <<face_db, metadata_txt>>
       ELSE /\ Len(metadata_txt) < MaxLines
            /\ face_db' = [face_db EXCEPT ![x] = faces[1]]
            /\ metadata_txt' = Append(metadata_txt, <<x, image>>)
            /\ last' = Returned("register_face", x, "ok")
    /\ UNCHANGED <<appVars, trip, storeVars, files, today, sessionVars, fpc, loaded_db,
                   flat_file, marked_attendance>>

\* mark_attendance up to its frame loop
FlatStart ==
    /\ fpc = "idle"
    /\ sessions < MaxSessions
    /\ sessions' = sessions + 1
    /\ loaded_db' = face_db
    /\ files' = IF files[today] = <<>>
                THEN [files EXCEPT ![today] = <<FlatHeader>>]
                ELSE files
    /\ flat_file' = today
    /\ marked_attendance' = {}
    /\ fpc' = "loop"
    /\ last' = Returned("flat_start", NoMatch, "ok")
    /\ UNCHANGED <<appVars, trip, storeVars, today, pc, threshold, mark_attendance,
                   attendance_file, recognized_persons, top_match, face_db,
                   metadata_txt>>

\* the ids the scan over face_db.items() can end with: a smallest distance
\* below the constant, the first of equals in directory order
FlatRecognized(q) ==
    LET known == {x \in Ids : loaded_db[x] # <<>>}
        distance(x) == 100 - Cosine(q, loaded_db[x])
    IN  {x \in known : /\ distance(x) < FlatDistance
                       /\ \A y \in known : distance(x) <= distance(y)}

FlatBest(q) ==
    LET known == {x \in Ids : loaded_db[x] # <<>>}
    IN  IF known = {} THEN -1
        ELSE CHOOSE s \in {Cosine(q, loaded_db[x]) : x \in known} :
                 \A y \in known : Cosine(q, loaded_db[y]) <= s

\* one detected face of one frame
FlatFrame(q) ==
    /\ fpc = "loop"
    /\ IF FlatRecognized(q) = {}
       THEN /\ last' = Matched("flat_match", q, NoMatch, "", 0, FlatBest(q))
            /\ UNCHANGED <<files, marked_attendance>>
       ELSE \E recognized_id \in FlatRecognized(q) :
               /\ IF recognized_id \notin marked_attendance
                  THEN /\ files' = [files EXCEPT ![flat_file] =
                                        Append(@, <<recognized_id, Now, "Present">>)]
                       /\ marked_attendance' = marked_attendance \cup {recognized_id}
                  ELSE UNCHANGED <<files, marked_attendance>>
               /\ last' = Matched("flat_match", q, recognized_id, "",
                                  Cosine(q, loaded_db[recognized_id]), FlatBest(q))
    /\ UNCHANGED <<appVars, trip, storeVars, today, sessionVars, face_db, metadata_txt, fpc,
                   loaded_db, flat_file>>

FlatStop ==
    /\ fpc = "loop"
    /\ fpc' = "idle"
    /\ last' = Returned("flat_stop", NoMatch, "ok")
    /\ UNCHANGED <<appVars, trip, storeVars, files, today, sessionVars, face_db, metadata_txt,
                   loaded_db, flat_file, marked_attendance>>

----------------------------------------------------------------------------
\* The reports: attendance_app.py (Reports tab) and attendance_dashboard.py

\* _get_all_registered_persons: the keys of db_manager.list_registered_persons()
AllRegisteredPersons == {p.registration_number : p \in PersonEntries(Visible)}

\* _load_attendance_report for the date in the entry field
LoadAttendanceReport(date) ==
    /\ has_collection
    /\ IF files[date] = <<>>
       THEN last' = Reported("report", date, 0, 0, 0)
       ELSE LET rows == {i \in 2..Len(files[date]) : Len(files[date][i]) >= 4}
                present_persons == {files[date][i][1] : i \in rows}
                total_persons == Cardinality(AllRegisteredPersons)
                present_count == Cardinality(present_persons)
            IN  last' = Reported("report", date, total_persons, present_count,
                                 total_persons - present_count)
    /\ trip' = NoTrip
    /\ UNCHANGED <<appVars, storeVars, files, today, sessionVars, flatVars>>

\* get_all_registered_students: the first fields of face_db/metadata.txt
AllRegisteredStudents == {metadata_txt[i][1] : i \in 1..Len(metadata_txt)}

\* load_attendance of the dashboard for the date in the entry field
DashboardLoadAttendance(date) ==
    /\ IF files[date] = <<>>
       THEN last' = Reported("dashboard", date, 0, 0, 0)
       ELSE LET present_count ==
                    Cardinality({i \in 2..Len(files[date]) :
                                    /\ Len(files[date][i]) >= 3
                                    /\ files[date][i][3] = "Present"})
                total_students == Cardinality(AllRegisteredStudents)
            IN  last' = Reported("dashboard", date, total_students, present_count,
                                 total_students - present_count)
    /\ trip' = NoTrip
    /\ UNCHANGED <<appVars, storeVars, files, today, sessionVars, flatVars>>

----------------------------------------------------------------------------
\* attendance_app.py: the database manager of the application

Tabs == {"registration", "recognition", "management", "reports"}

\* the frame of a handler that changes the application only
dataVars == <<storeVars, files, today, sessionVars, flatVars>>

\* the Milvus server stops or starts; collections outlive it
MilvusToggles ==
    /\ milvus_up' = ~milvus_up
    /\ UNCHANGED <<dataVars, last, trip, db_manager, tab, stop_recognition,
                   recognition_active, camera_active, camera_cap, wpc, wcap, cpc,
                   start_recog_btn, start_recog_preview_btn, start_preview_btn,
                   pending, window>>

\* _retry_db_connection: _init_database_manager once more
RetryDbConnection ==
    /\ window # "destroyed"
    /\ tab = "management"
    /\ IF milvus_up
       THEN /\ db_manager' = "connected"
            /\ has_collection' = TRUE
            /\ last' = Returned("retry", NoMatch, "ok")
       ELSE /\ db_manager' = "None"
            /\ last' = Returned("retry", NoMatch, "ConnectionError")
            /\ UNCHANGED has_collection
    /\ trip' = NoTrip
    /\ UNCHANGED <<collection, unsynced, consistency_level, samples_dir, files, today,
                   sessionVars, flatVars, milvus_up, tab, stop_recognition,
                   recognition_active, camera_active, camera_cap, wpc, wcap, cpc,
                   start_recog_btn, start_recog_preview_btn, start_preview_btn,
                   pending, window>>

\* a request the application turns down or that dies in the backend
Refused(op, x, result) ==
    /\ last' = Returned(op, x, result)
    /\ trip' = NoTrip
    /\ UNCHANGED <<dataVars, appVars>>

\* faulty variant: the handlers do not look at db_manager
NoDatabaseUnchecked == FALSE

\* if self.db_manager is None
NoDatabase == db_manager = "None"

\* _register_person: the Register Person button
AppRegisterPerson(x, full_name) ==
    /\ window # "destroyed"
    /\ tab = "registration"
    /\ start_preview_btn
    /\ IF NoDatabase
       THEN Refused("register", x, "NoDatabase")
       ELSE IF ~milvus_up
       THEN Refused("register", x, "BackendUnavailable")
       ELSE RegisterPerson(x, IF full_name = "" THEN x ELSE full_name)

\* _remove_selected_person, with x selected in the list and the removal confirmed
AppRemoveSelectedPerson(x) ==
    /\ window # "destroyed"
    /\ tab = "management"
    /\ IF NoDatabase
       THEN Refused("remove", x, "NoDatabase")
       ELSE IF ~milvus_up
       THEN Refused("remove", x, "BackendUnavailable")
       ELSE RemovePerson(x)

\* _refresh_person_list: list_registered_persons gives {} when the query fails
AppRefreshPersonList ==
    /\ window # "destroyed"
    /\ tab = "management"
    /\ IF NoDatabase
       THEN Refused("list", NoMatch, "NoDatabase")
       ELSE IF ~milvus_up
       THEN /\ last' = Listed({})
            /\ trip' = NoTrip
            /\ UNCHANGED <<dataVars, appVars>>
       ELSE ListRegisteredPersons

----------------------------------------------------------------------------
\* attendance_app.py: previews, the recognition thread and the camera

\* the frame of a handler that touches neither the store nor the manager
backVars == <<storeVars, files, today, flatVars, last, trip, milvus_up, db_manager>>
sessVars == <<pc, threshold, mark_attendance, attendance_file, recognized_persons,
              top_match>>

\* _stop_camera: the preview, if any, is stopped and its capture released
StopCamera ==
    /\ camera_active' = FALSE
    /\ camera_cap' = "None"

\* _on_tab_change
OnTabChange(t) ==
    /\ window # "destroyed"
    /\ t # tab
    /\ tab' = t
    /\ StopCamera
    /\ stop_recognition' = IF recognition_active THEN TRUE ELSE stop_recognition
    /\ UNCHANGED <<backVars, sessVars, sessions, recognition_active, wpc, wcap, cpc,
                   start_recog_btn, start_recog_preview_btn, start_preview_btn,
                   pending>>
    /\ UNCHANGED window

\* _on_closing: the window goes at once, or 500 ms later while a session is active
OnClosing ==
    /\ window = "open"
    /\ StopCamera
    /\ stop_recognition' = TRUE
    /\ window' = IF recognition_active THEN "closing" ELSE "destroyed"
    /\ UNCHANGED <<backVars, sessVars, sessions, tab, recognition_active, wpc, wcap,
                   cpc, start_recog_btn, start_recog_preview_btn, start_preview_btn,
                   pending>>

\* root.destroy: the main loop ends and the daemon threads end with the process
Destroy ==
    /\ window = "closing"
    /\ window' = "destroyed"
    /\ UNCHANGED <<backVars, sessVars, sessions, tab, stop_recognition,
                   recognition_active, camera_active, camera_cap, wpc, wcap, cpc,
                   start_recog_btn, start_recog_preview_btn, start_preview_btn,
                   pending>>

\* the body of both preview buttons: a running preview is stopped, else
\* cv2.VideoCapture(camera_index) opens the device or does not (an absent
\* device; a device held by another capture opens on some platforms only)
TogglePreview ==
    IF camera_active
    THEN StopCamera
    ELSE \E opened \in BOOLEAN :
            IF opened
            THEN camera_cap' = "opened" /\ camera_active' = TRUE
            ELSE camera_cap' = "None" /\ camera_active' = FALSE

\* _start_reg_preview
StartRegPreview ==
    /\ window # "destroyed"
    /\ tab = "registration"
    /\ start_preview_btn
    /\ TogglePreview
    /\ UNCHANGED <<backVars, sessVars, sessions, tab, stop_recognition,
                   recognition_active, wpc, wcap, cpc, start_recog_btn,
                   start_recog_preview_btn, start_preview_btn, pending, window>>

\* _start_recog_preview
StartRecogPreview ==
    /\ window # "destroyed"
    /\ tab = "recognition"
    /\ start_recog_preview_btn
    /\ TogglePreview
    /\ UNCHANGED <<backVars, sessVars, sessions, tab, stop_recognition,
                   recognition_active, wpc, wcap, cpc, start_recog_btn,
                   start_recog_preview_btn, start_preview_btn, pending, window>>

\* _collect_face_samples: the buttons of the tab are disabled, the preview
\* stops and the collection thread starts
AppCollectFaceSamples ==
    /\ window # "destroyed"
    /\ tab = "registration"
    /\ start_preview_btn
    /\ start_preview_btn' = FALSE
    /\ StopCamera
    /\ cpc' = "run"
    /\ UNCHANGED <<backVars, sessVars, sessions, tab, stop_recognition,
                   recognition_active, wpc, wcap, start_recog_btn,
                   start_recog_preview_btn, pending, window>>

\* collection_thread: collect_face_samples takes no preview_widget,
\* convert_func or app_root argument, so the call raises TypeError before
\* any camera is opened, and the handler posts the re-enabling callbacks
CollectionThread ==
    /\ window # "destroyed"
    /\ cpc = "run"
    /\ cpc' = "none"
    /\ pending' = pending \cup {"registration"}
    /\ UNCHANGED <<backVars, sessVars, sessions, tab, stop_recognition,
                   recognition_active, camera_active, camera_cap, wpc, wcap,
                   start_recog_btn, start_recog_preview_btn, start_preview_btn,
                   window>>

\* _toggle_recognition, and _start_recognition when no session is active
ToggleRecognition ==
    /\ window # "destroyed"
    /\ tab = "recognition"
    /\ start_recog_btn
    /\ IF recognition_active
       THEN /\ stop_recognition' = TRUE
            /\ start_recog_btn' = FALSE
            /\ UNCHANGED <<sessions, recognition_active, start_recog_preview_btn,
                           camera_active, camera_cap, wpc>>
       ELSE /\ sessions < MaxSessions
            /\ sessions' = sessions + 1
            /\ stop_recognition' = FALSE
            /\ recognition_active' = TRUE
            /\ start_recog_preview_btn' = FALSE
            /\ StopCamera
            /\ wpc' = [wpc EXCEPT ![sessions + 1] = "start"]
            /\ UNCHANGED start_recog_btn
    /\ UNCHANGED <<backVars, sessVars, tab, wcap, cpc, start_preview_btn, pending,
                   window>>

\* the frame of a step that touches a widget or the event loop
quietVars == <<storeVars, files, today, flatVars, trip, milvus_up, db_manager>>

\* a widget or the event loop was accessed: by which thread's statement, and
\* what it was
UiAccess(thread, what) == Returned("ui", thread, what)

\* the posted callbacks cs run: the buttons they re-enable
CallbacksRun(cs) ==
    /\ pending' = pending \ cs
    /\ start_recog_btn' = (start_recog_btn \/ "recognition" \in cs)
    /\ start_recog_preview_btn' = (start_recog_preview_btn \/ "recognition" \in cs)
    /\ start_preview_btn' = (start_preview_btn \/ "registration" \in cs)

\* the callbacks a thread posted with root.after(0, ...) run in the main loop
AfterCallback(c) ==
    /\ window # "destroyed"
    /\ c \in pending
    /\ CallbacksRun({c})
    /\ last' = UiAccess("main thread", c)
    /\ UNCHANGED <<quietVars, sessVars, sessions, tab, stop_recognition,
                   recognition_active, camera_active, camera_cap, wpc, wcap, cpc,
                   window>>

----------------------------------------------------------------------------
\* recognition_thread of the application, statement by statement

uiVars == <<tab, camera_active, camera_cap, cpc, start_recog_btn,
            start_recog_preview_btn, start_preview_btn, window>>

\* FaceRecognitionSystem(threshold), then cv2.VideoCapture(camera_index):
\* the loop is entered with the capture open, or the call returns (no
\* camera) or raises (no Milvus) and the thread goes on to reset the flags
WStart(t) ==
    /\ window # "destroyed"
    /\ wpc[t] = "start"
    /\ \E opened \in BOOLEAN :
          IF milvus_up /\ opened
          THEN /\ wcap' = wcap \cup {t}
               /\ wpc' = [wpc EXCEPT ![t] = "loop"]
          ELSE /\ wpc' = [wpc EXCEPT ![t] = "flag1"]
               /\ UNCHANGED wcap
    /\ UNCHANGED <<backVars, sessVars, sessions, uiVars, stop_recognition,
                   recognition_active, pending>>

\* if stop_flag and stop_flag(): break, at the start of a frame iteration
WCheckStop(t) ==
    /\ window # "destroyed"
    /\ wpc[t] = "loop"
    /\ wpc' = [wpc EXCEPT ![t] = IF stop_recognition THEN "release" ELSE "frame"]
    /\ UNCHANGED <<backVars, sessVars, sessions, uiVars, stop_recognition,
                   recognition_active, wcap, pending>>

\* the rest of the iteration: the frame is read and matched; to display it
\* the thread asks the widget for its size, builds the image, posts the two
\* callbacks that show it and calls app_root.update() itself, which runs
\* every callback posted so far
WFrame(t) ==
    /\ window # "destroyed"
    /\ wpc[t] = "frame"
    /\ wpc' = [wpc EXCEPT ![t] = "loop"]
    /\ CallbacksRun(pending)
    /\ last' = UiAccess("recognition thread", "app_root.update")
    /\ UNCHANGED <<quietVars, sessVars, sessions, tab, camera_active, camera_cap,
                   cpc, window, stop_recognition, recognition_active, wcap>>

\* ret, frame = cap.read(); if not ret: break
WReadFails(t) ==
    /\ window # "destroyed"
    /\ wpc[t] = "frame"
    /\ wpc' = [wpc EXCEPT ![t] = "release"]
    /\ UNCHANGED <<backVars, sessVars, sessions, uiVars, stop_recognition,
                   recognition_active, wcap, pending>>

\* a statement of the iteration raises: recognize_from_webcam is left without
\* cap.release() and the thread goes on in its except branch
WRaises(t) ==
    /\ window # "destroyed"
    /\ wpc[t] = "frame"
    /\ wpc' = [wpc EXCEPT ![t] = "flag1"]
    /\ UNCHANGED <<backVars, sessVars, sessions, uiVars, stop_recognition,
                   recognition_active, wcap, pending>>

\* cap.release(), and recognize_from_webcam returns
WRelease(t) ==
    /\ window # "destroyed"
    /\ wpc[t] = "release"
    /\ wcap' = wcap \ {t}
    /\ wpc' = [wpc EXCEPT ![t] = "flag1"]
    /\ UNCHANGED <<backVars, sessVars, sessions, uiVars, stop_recognition,
                   recognition_active, pending>>

\* self.recognition_active = False
WFlag1(t) ==
    /\ window # "destroyed"
    /\ wpc[t] = "flag1"
    /\ recognition_active' = FALSE
    /\ wpc' = [wpc EXCEPT ![t] = "flag2"]
    /\ UNCHANGED <<backVars, sessVars, sessions, uiVars, stop_recognition, wcap,
                   pending>>

\* self.stop_recognition = False
WFlag2(t) ==
    /\ window # "destroyed"
    /\ wpc[t] = "flag2"
    /\ stop_recognition' = FALSE
    /\ wpc' = [wpc EXCEPT ![t] = "post"]
    /\ UNCHANGED <<backVars, sessVars, sessions, uiVars, recognition_active, wcap,
                   pending>>

\* the root.after(0, ...) calls that re-enable the buttons, and the end of
\* the thread
WPost(t) ==
    /\ window # "destroyed"
    /\ wpc[t] = "post"
    /\ pending' = pending \cup {"recognition"}
    /\ wpc' = [wpc EXCEPT ![t] = "done"]
    /\ UNCHANGED <<backVars, sessVars, sessions, uiVars, stop_recognition,
                   recognition_active, wcap>>

\* the interpreter finalises the capture a call abandoned when it raised,
\* and the device is closed; nothing says how soon after the thread's end
CapFinalised(t) ==
    /\ window # "destroyed"
    /\ wpc[t] = "done"
    /\ t \in wcap
    /\ wcap' = wcap \ {t}
    /\ UNCHANGED <<backVars, sessVars, sessions, uiVars, stop_recognition,
                   recognition_active, wpc, pending>>

\* what the scheduler owes a thread: every statement but the failed read
WorkerStep(t) ==
    \/ WStart(t)
    \/ WCheckStop(t)
    \/ WFrame(t)
    \/ WRelease(t)
    \/ WFlag1(t)
    \/ WFlag2(t)
    \/ WPost(t)

\* who has the camera open: the preview of a tab, recognition threads
Holders ==
    {<<"recognition thread", t>> : t \in wcap}
    \cup (IF camera_cap = "opened" THEN {<<"preview", 0>>} ELSE {})

----------------------------------------------------------------------------
\* recognition_thread running recognize_from_webcam with its frames, one
\* session after the other

loopRest == <<storeVars, today, flatVars, trip, db_manager, tab, camera_active,
              camera_cap, wpc, cpc, start_recog_btn, start_recog_preview_btn,
              start_preview_btn, pending, window>>

\* _start_recognition and the thread up to the frame loop: without Milvus the
\* constructor raises, without a camera recognize_from_webcam returns at once
LoopStart(th, mark) ==
    /\ pc = "idle"
    /\ sessions < MaxSessions
    /\ stop_recognition' = FALSE
    /\ \E opened \in BOOLEAN :
          IF milvus_up /\ opened
          THEN /\ SessionOpened(th, mark, "check")
               /\ wcap' = wcap \cup {sessions + 1}
               /\ recognition_active' = TRUE
          ELSE /\ sessions' = sessions + 1
               /\ last' = Returned("start", NoMatch,
                                   IF milvus_up THEN "CameraError" ELSE "ConnectionError")
               /\ recognition_active' = FALSE
               /\ UNCHANGED <<pc, threshold, mark_attendance, attendance_file,
                              recognized_persons, top_match, files, wcap>>
    /\ UNCHANGED <<loopRest, milvus_up>>

\* _toggle_recognition while a session is active: self.stop_recognition = True
StopFlagSet ==
    /\ recognition_active
    /\ ~stop_recognition
    /\ stop_recognition' = TRUE
    /\ UNCHANGED <<loopRest, milvus_up, files, sessionVars, last, recognition_active,
                   wcap>>

\* faulty variant: the iteration starts without a look at the flag
StopFlagIgnored == FALSE

\* stop_flag and stop_flag()
StopFlagSeen == stop_recognition

\* the head of an iteration: the stop flag is looked at, then a frame is read
LoopCheck ==
    /\ pc = "check"
    /\ IF StopFlagSeen
       THEN /\ pc' = "release"
            /\ last' = Returned("stop", NoMatch, "stopped by user request")
       ELSE \E ret \in BOOLEAN :
               IF ret
               THEN /\ pc' = "loop"
                    /\ last' = Returned("read", NoMatch, "ok")
               ELSE /\ pc' = "release"
                    /\ last' = Returned("read", NoMatch, "Failed to capture image")
    /\ UNCHANGED <<loopRest, milvus_up, files, threshold, mark_attendance,
                   attendance_file, recognized_persons, top_match, sessions,
                   stop_recognition, recognition_active, wcap>>

\* faulty variant: the exception of the search leaves _find_best_match
SearchRaises(q) ==
    /\ pc = "loop"
    /\ ~milvus_up
    /\ pc' = "raised"
    /\ last' = Returned("match", NoMatch, "Error during recognition")
    /\ UNCHANGED <<loopRest, milvus_up, files, threshold, mark_attendance,
                   attendance_file, recognized_persons, top_match, sessions,
                   stop_recognition, recognition_active, wcap>>

\* _find_best_match with the server down: the exception of has_collection,
\* load or search is caught and the face is unknown
SearchFails(q) ==
    /\ pc = "loop"
    /\ ~milvus_up
    /\ last' = Matched("match", q, NoMatch, "", 0, -1)
    /\ UNCHANGED <<loopRest, milvus_up, files, sessionVars, stop_recognition,
                   recognition_active, wcap>>

\* one detected face of the frame, its search and the metadata read; when
\* the server goes down between them _load_person_database gives {} and the
\* name is "Unknown"
LoopFace(q) ==
    \/ milvus_up /\ Search(q)
    \/ SearchFails(q)
    \/ milvus_up /\ Resolve
    \/ ~milvus_up /\ ResolveNamed({"Unknown"})

\* the frame is displayed and the iteration ends; the loop ends with it
\* when app_root.update() raises or the preview widget exists no more
FrameEnds ==
    /\ pc = "loop"
    /\ \E alive \in BOOLEAN :
          IF alive
          THEN /\ pc' = "check"
               /\ UNCHANGED last
          ELSE /\ pc' = "release"
               /\ last' = Returned("frame", NoMatch, "widget destroyed")
    /\ UNCHANGED <<loopRest, milvus_up, files, threshold, mark_attendance,
                   attendance_file, recognized_persons, top_match, sessions,
                   stop_recognition, recognition_active, wcap>>

\* a statement of the iteration raises (app.get, the ledger's open, the
\* conversion, a call on a destroyed widget): nothing in the loop catches it
FrameRaises ==
    /\ pc = "loop"
    /\ pc' = "raised"
    /\ last' = Returned("frame", NoMatch, "Error during recognition")
    /\ UNCHANGED <<loopRest, milvus_up, files, threshold, mark_attendance,
                   attendance_file, recognized_persons, top_match, sessions,
                   stop_recognition, recognition_active, wcap>>

\* cap.release()
CapReleased(caps, t) == caps \ {t}

\* the end of the thread: after the loop cap.release() and the return, after
\* an exception the except branch; both reset the flags. The capture object
\* of a call left by an exception is closed when it is finalised, which the
\* interpreter may do at once, later or not at all
LoopReturn ==
    /\ pc \in {"release", "raised"}
    /\ pc' = "idle"
    /\ IF pc = "release"
       THEN wcap' = CapReleased(wcap, sessions)
       ELSE \E finalised \in BOOLEAN :
               wcap' = IF finalised THEN wcap \ {sessions} ELSE wcap
    /\ recognition_active' = FALSE
    /\ stop_recognition' = FALSE
    /\ UNCHANGED <<loopRest, milvus_up, files, threshold, mark_attendance,
                   attendance_file, recognized_persons, top_match, sessions, last>>

----------------------------------------------------------------------------
\* Specifications

SampleRuns == UNION {[1..n -> SamplePool] : n \in 1..MaxSamples}

Images == {<<>>} \cup {<<e>> : e \in SamplePool} \cup {<<e, e>> : e \in SamplePool}

\* no sample, no ledger, no flat-file entry, no session
InitFiles ==
    /\ unsynced = {}
    /\ samples_dir = [x \in Ids |-> <<>>]
    /\ files = [d \in Dates |-> <<>>]
    /\ today = 1
    /\ pc = "idle"
    /\ threshold = 40
    /\ mark_attendance = TRUE
    /\ attendance_file = 0
    /\ recognized_persons = {}
    /\ top_match = NoHit
    /\ sessions = 0
    /\ face_db = [x \in Ids |-> <<>>]
    /\ metadata_txt = <<>>
    /\ fpc = "idle"
    /\ loaded_db = [x \in Ids |-> <<>>]
    /\ flat_file = 0
    /\ marked_attendance = {}
    /\ trip = NoTrip

InitCommon == InitFiles /\ last = Returned("init", NoMatch, "ok")

\* the application as __init__ leaves it, connected, with no thread started
AppIdle ==
    /\ milvus_up = TRUE
    /\ db_manager = "connected"
    /\ tab = "registration"
    /\ stop_recognition = FALSE
    /\ recognition_active = FALSE
    /\ camera_active = FALSE
    /\ camera_cap = "None"
    /\ wpc = [t \in 1..MaxSessions |-> "none"]
    /\ wcap = {}
    /\ cpc = "none"
    /\ start_recog_btn = TRUE
    /\ start_recog_preview_btn = TRUE
    /\ start_preview_btn = TRUE
    /\ pending = {}
    /\ window = "open"

\* the store program: sample collection, enrolment, removal, listing
InitStore ==
    /\ InitCommon
    /\ AppIdle
    /\ collection = {}
    /\ consistency_level = "Strong"
    /\ has_collection = TRUE

StoreNext ==
    \/ \E x \in Ids, es \in SampleRuns : CollectFaceSamples(x, es)
    \/ \E x \in Ids, full_name \in FullNames : RegisterPerson(x, full_name)
    \/ \E x \in Ids : RemovePerson(x)
    \/ ListRegisteredPersons

SpecStore == InitStore /\ [][StoreNext]_vars

\* the stores enrolment leaves behind: every id absent, or registered from a
\* run of collected samples
EnrolRuns == {<<>>, << <<5, 0>> >>, << <<3, 4>> >>, << <<5, 0>>, <<3, 4>> >>}

Enrolled ==
    {UNION {IF f[x] = <<>> THEN {} ELSE Entities(x, "Ann", f[x]) : x \in Ids} :
         f \in [Ids -> EnrolRuns]}

\* recognition sessions over an enrolled store, with removals from the
\* management tab going on beside them
Init ==
    /\ InitCommon
    /\ AppIdle
    /\ has_collection \in BOOLEAN
    /\ collection \in IF has_collection THEN Enrolled ELSE {{}}
    /\ consistency_level = "Strong"

Next ==
    \/ \E th \in Thresholds, mark \in BOOLEAN : RecognizeStart(th, mark)
    \/ \E q \in Pool : Search(q)
    \/ Resolve
    \/ RecognizeStop
    \/ NextDay
    \/ \E x \in Ids : RemovePerson(x)

Spec == Init /\ [][Next]_vars

\* the flat-file programs
FlatNext ==
    \/ \E x \in Ids, faces \in Images, image \in {"a.jpg"} : RegisterFace(x, faces, image)
    \/ FlatStart
    \/ \E q \in Pool : FlatFrame(q)
    \/ FlatStop

SpecFlat == InitStore /\ [][FlatNext]_vars

\* the store behind a collection of bounded staleness
InitBounded ==
    /\ InitCommon
    /\ AppIdle
    /\ collection = {}
    /\ consistency_level = "Bounded"
    /\ has_collection = TRUE

BoundedNext ==
    \/ \E x \in Ids, es \in {<< <<5, 0>> >>} : CollectFaceSamples(x, es)
    \/ \E x \in Ids, full_name \in {"Ann"} : RegisterPerson(x, full_name)
    \/ \E x \in Ids : RemovePerson(x)
    \/ ListRegisteredPersons
    \/ BackendSync

SpecBounded == InitBounded /\ [][BoundedNext]_vars

\* the application with its reports: sessions and removals over an enrolled
\* store, and both report programs reading the ledgers; metadata.txt lists
\* the persons of the store
InitReports ==
    /\ unsynced = {}
    /\ samples_dir = [x \in Ids |-> <<>>]
    /\ files = [d \in Dates |-> <<>>]
    /\ today = 1
    /\ pc = "idle"
    /\ threshold = 40
    /\ mark_attendance = TRUE
    /\ attendance_file = 0
    /\ recognized_persons = {}
    /\ top_match = NoHit
    /\ sessions = 0
    /\ face_db = [x \in Ids |-> <<>>]
    /\ fpc = "idle"
    /\ loaded_db = [x \in Ids |-> <<>>]
    /\ flat_file = 0
    /\ marked_attendance = {}
    /\ last = Returned("init", NoMatch, "ok")
    /\ trip = NoTrip
    /\ consistency_level = "Strong"
    /\ has_collection = TRUE
    /\ AppIdle
    /\ collection \in Enrolled
    /\ metadata_txt \in {<< <<"P1", "a.jpg">> >>, << <<"P2", "a.jpg">> >>, <<>>,
                          << <<"P1", "a.jpg">>, <<"P2", "a.jpg">> >>}
    /\ AllRegisteredStudents = AllRegisteredPersons

ReportsNext ==
    \/ \E th \in {40} : RecognizeStart(th, TRUE)
    \/ \E q \in SamplePool : Search(q)
    \/ Resolve
    \/ RecognizeStop
    \/ \E x \in Ids : RemovePerson(x)
    \/ \E date \in Dates : LoadAttendanceReport(date)
    \/ \E date \in Dates : DashboardLoadAttendance(date)

SpecReports == InitReports /\ [][ReportsNext]_vars

\* the Registration and Management tabs of the application over a Milvus
\* server that may be down when the application starts, with samples
\* brought by the collector program
InitManage ==
    /\ InitFiles
    /\ collection = {}
    /\ consistency_level = "Strong"
    /\ milvus_up \in BOOLEAN
    /\ has_collection \in IF milvus_up THEN {TRUE} ELSE BOOLEAN
    /\ db_manager = IF milvus_up THEN "connected" ELSE "None"
    /\ last = Returned("connect", NoMatch, IF milvus_up THEN "ok" ELSE "ConnectionError")
    /\ tab = "registration"
    /\ stop_recognition = FALSE
    /\ recognition_active = FALSE
    /\ camera_active = FALSE
    /\ camera_cap = "None"
    /\ wpc = [t \in 1..MaxSessions |-> "none"]
    /\ wcap = {}
    /\ cpc = "none"
    /\ start_recog_btn = TRUE
    /\ start_recog_preview_btn = TRUE
    /\ start_preview_btn = TRUE
    /\ pending = {}
    /\ window = "open"

ManageNext ==
    \/ MilvusToggles
    \/ RetryDbConnection
    \/ \E t \in Tabs : OnTabChange(t)
    \/ \E x \in Ids, es \in {<< <<5, 0>> >>} : CollectFaceSamples(x, es)
    \/ \E x \in Ids, full_name \in FullNames : AppRegisterPerson(x, full_name)
    \/ \E x \in Ids : AppRemoveSelectedPerson(x)
    \/ AppRefreshPersonList

SpecManage == InitManage /\ [][ManageNext]_vars

\* the application's previews and recognition threads
InitApp == InitCommon /\ collection = {} /\ consistency_level = "Strong"
               /\ has_collection = TRUE /\ AppIdle

AppNext ==
    \/ \E t \in Tabs : OnTabChange(t)
    \/ OnClosing
    \/ Destroy
    \/ StartRegPreview
    \/ StartRecogPreview
    \/ AppCollectFaceSamples
    \/ CollectionThread
    \/ ToggleRecognition
    \/ \E c \in {"recognition", "registration"} : AfterCallback(c)
    \/ \E t \in 1..MaxSessions : WorkerStep(t) \/ WReadFails(t) \/ WRaises(t)
    \/ \E t \in 1..MaxSessions : CapFinalised(t)

SpecApp == InitApp /\ [][AppNext]_vars

\* the same, with every thread scheduled again and again, the main loop
\* running its timers and posted callbacks, and every abandoned capture
\* finalised in the end; no user event is ever owed
SpecAppFair ==
    /\ SpecApp
    /\ \A t \in 1..MaxSessions : WF_vars(WorkerStep(t))
    /\ \A t \in 1..MaxSessions : WF_vars(CapFinalised(t))
    /\ WF_vars(Destroy)
    /\ WF_vars(\E c \in {"recognition", "registration"} : AfterCallback(c))

\* the two recognition programs over the same enrolled faces: every person
\* is in neither store or in both, registered from the same face
SameFaces == [Ids -> {<<>>} \cup {<<e>> : e \in SamplePool}]

IdSeqs == {<<>>, <<"P1">>, <<"P2">>, <<"P1", "P2">>}

InitCompare ==
    /\ unsynced = {}
    /\ samples_dir = [x \in Ids |-> <<>>]
    /\ files = [d \in Dates |-> <<>>]
    /\ today = 1
    /\ pc = "idle"
    /\ threshold = 40
    /\ mark_attendance = TRUE
    /\ attendance_file = 0
    /\ recognized_persons = {}
    /\ top_match = NoHit
    /\ sessions = 0
    /\ fpc = "idle"
    /\ loaded_db = [x \in Ids |-> <<>>]
    /\ flat_file = 0
    /\ marked_attendance = {}
    /\ last = Returned("init", NoMatch, "ok")
    /\ trip = NoTrip
    /\ consistency_level = "Strong"
    /\ AppIdle
    /\ \E f \in SameFaces :
          /\ has_collection \in IF \A x \in Ids : f[x] = <<>> THEN BOOLEAN ELSE {TRUE}
          /\ collection = UNION {IF f[x] = <<>> THEN {} ELSE Entities(x, "Ann", f[x]) :
                                     x \in Ids}
          /\ face_db = [x \in Ids |-> IF f[x] = <<>> THEN <<>> ELSE f[x][1]]
          /\ metadata_txt \in {ids \in IdSeqs : \A x \in Ids :
                                   (f[x] # <<>>) <=> (\E i \in 1..Len(ids) : ids[i] = x)}

CompareNext ==
    \/ \E th \in {FlatDistance} : RecognizeStart(th, TRUE)
    \/ \E q \in SamplePool : Search(q)
    \/ Resolve
    \/ RecognizeStop
    \/ FlatStart
    \/ \E q \in SamplePool : FlatFrame(q)
    \/ FlatStop

SpecCompare == InitCompare /\ [][CompareNext]_vars

\* recognition sessions of the application frame by frame, over an enrolled
\* store and a server that may go down and come back
LoopFaces == [x \in Ids |-> IF x = "P1" THEN <<5, 0>> ELSE <<3, 4>>]

LoopStores ==
    {UNION {Entities(x, "Ann", <<LoopFaces[x]>>) : x \in S} : S \in SUBSET Ids}

LoopQueries == {<<5, 0>>, <<0, 5>>}          \* faces in front of the camera

InitLoop ==
    /\ InitCommon
    /\ AppIdle
    /\ has_collection = TRUE
    /\ collection \in LoopStores
    /\ consistency_level = "Strong"

LoopNext ==
    \/ \E th \in {40}, mark \in BOOLEAN : LoopStart(th, mark)
    \/ StopFlagSet
    \/ LoopCheck
    \/ \E q \in LoopQueries : LoopFace(q)
    \/ FrameEnds
    \/ FrameRaises
    \/ LoopReturn
    \/ MilvusToggles

SpecLoop == InitLoop /\ [][LoopNext]_vars

\* every matcher the classes define, over every enrolled store
MatchNext ==
    \/ \E th \in {40}, mark \in {FALSE} : RecognizeStart(th, mark)
    \/ \E q \in Pool : Search(q)
    \/ Resolve
    \/ RecognizeStop
    \/ \E who \in LegacyMatchers, q \in Pool : LegacySearch(who, q)
    \/ LegacyResolve

SpecMatch == Init /\ [][MatchNext]_vars

----------------------------------------------------------------------------
\* Properties

\* C1: for recognition sessions with marking enabled that run on the same
\* date, the ledger of the date never holds two Present rows with the same
\* identity id (the session's set would be seeded from the file at start).
C1_NoDuplicatePresent ==
    \A d \in Dates : \A i, j \in 2..Len(files[d]) :
        i # j => files[d][i][1] # files[d][j][1]

\* C2: in one session with marking enabled, a match of an id not yet in the
\* already-recorded set appends exactly one row for it to the session's
\* ledger and adds the id to the set; a match of an id already in the set
\* changes neither the ledger nor the set.
C2_MarkOncePerSession ==
    [][(pc = "meta" /\ pc' = "loop" /\ mark_attendance /\ last'.result = "Match")
        => IF last'.id \in recognized_persons
           THEN files' = files /\ recognized_persons' = recognized_persons
           ELSE /\ Len(files'[attendance_file]) = Len(files[attendance_file]) + 1
                /\ SubSeq(files'[attendance_file], 1, Len(files[attendance_file]))
                       = files[attendance_file]
                /\ files'[attendance_file][Len(files'[attendance_file])]
                       = <<last'.id, last'.name, Now, "Present">>
                /\ \A d \in Dates \ {attendance_file} : files'[d] = files[d]
                /\ recognized_persons' = recognized_persons \cup {last'.id}]_vars

\* a second match of an id of the set, after another id was the last one marked
C2_Witness ==
    /\ pc = "loop"
    /\ mark_attendance
    /\ last.op = "match"
    /\ last.result = "Match"
    /\ last.id \in recognized_persons
    /\ files[attendance_file][Len(files[attendance_file])][1] # last.id

\* C3: enrolling an id that is already in the store fails with AlreadyExists
\* and leaves the store unchanged, in the indexed backend (register_person)
\* and in the flat-file backend (register_face).
C3_AlreadyExistsBothBackends ==
    [][/\ (last'.op = "register"
            /\ \E r \in collection : r.registration_number = last'.id)
          => (last'.result = "AlreadyExists" /\ collection' = collection)
       /\ (last'.op = "register_face" /\ face_db[last'.id] # <<>>)
          => /\ last'.result = "AlreadyExists"
             /\ face_db' = face_db
             /\ metadata_txt' = metadata_txt]_vars

\* C4: enrolling an id for which no samples exist fails with NoSamples, and
\* the rows of the store are the same after the call as before it.
C4_NoSamples ==
    [][(last'.op = "register" /\ samples_dir[last'.id] = <<>>)
        => (last'.result = "NoSamples" /\ collection' = collection)]_vars

\* C4 as amended: enrolling an id that is not in the store and for which no
\* samples exist fails with NoSamples; enrolling any id for which no samples
\* exist fails, and the rows of the store are the same after it as before.
C4_NoSamplesNewId ==
    [][(last'.op = "register" /\ samples_dir[last'.id] = <<>>)
        => /\ last'.result # "ok"
           /\ collection' = collection
           /\ (\A r \in collection : r.registration_number # last'.id)
                  => last'.result = "NoSamples"]_vars

\* a failed enrolment of a new id without samples, beside an enrolled person
C4_Witness ==
    /\ last.op = "register"
    /\ last.result = "NoSamples"
    /\ samples_dir[last.id] = <<>>
    /\ collection # {}

C7_RemoveAtomicForMatch ==
    /\ ~(last.op = "match" /\ last.result = "Match" /\ last.name = "Unknown")
    /\ \A d \in Dates : \A i \in 2..Len(files[d]) : files[d][i][2] # "Unknown"

\* C8: once register_person has returned success for X, a list that starts
\* afterwards has X's entry.
C8_ReadYourWrites ==
    [][(last.op = "register" /\ last.result = "ok" /\ last'.op = "list")
        => \E p \in last'.persons : p.registration_number = last.id]_vars

\* C9: a query whose top-1 score equals the threshold is a match, in the
\* indexed matcher (session threshold) and in the flat-file matcher (its
\* constant, as a similarity).
C9_InclusiveThreshold ==
    /\ (last.op = "match" /\ last.best = threshold) => last.result = "Match"
    /\ (last.op = "flat_match" /\ last.best = 100 - FlatDistance)
           => last.result = "Match"

DataRows(f) == [d \in Dates |-> IF f[d] = <<>> THEN <<>> ELSE Tail(f[d])]

\* C11: while the store holds no embedding (no collection, a collection
\* without embedding rows, an empty face_db), every face of every frame
\* resolves to Unknown, in the session over the collection and in the
\* flat-file loop, no search comes back with a hit, and no step changes the
\* data rows of a ledger.
C11_EmptyStoreUnknown ==
    [][/\ (pc # "meta" /\ (~has_collection \/ EmbeddingRows(collection) = {}))
          => /\ pc' # "meta"
             /\ (last' # last /\ last'.op = "match")
                    => (last'.result = "Unknown" /\ last'.id = NoMatch)
             /\ (pc = "loop" \/ pc' = "loop") => DataRows(files') = DataRows(files)
       /\ (fpc = "loop" /\ \A x \in Ids : loaded_db[x] = <<>>)
          => /\ (last' # last /\ last'.op = "flat_match")
                    => (last'.result = "Unknown" /\ last'.id = NoMatch)
             /\ fpc' = "loop" => DataRows(files') = DataRows(files)]_vars

\* both programs have looked at a face with nothing enrolled, there is no
\* collection, and the ledger of the day has its header and no data row
C11_Witness ==
    /\ ~has_collection
    /\ pc = "loop"
    /\ fpc = "loop"
    /\ last.op \in {"match", "flat_match"}
    /\ last.result = "Unknown"
    /\ last.best = -1
    /\ Len(files[today]) = 1

\* the embedding rows of a person
SamplesOf(x) == {r \in EmbeddingRows(collection) : r.registration_number = x}

\* C12: a face that is a stored sample of person A, and that no sample of
\* another person is as near to as it is to itself, gets A as the top-1 hit
\* with the score of the face to itself, and a threshold that is at most the
\* smallest similarity between two samples of A accepts that score; a hit
\* whose score the threshold accepts is returned as a match of its id.
C12_OwnSampleMatches ==
    [][/\ (pc = "loop" /\ pc' = "meta")
          => \A A \in Ids :
                LET q == top_match'.embedding
                IN  (/\ \E r \in SamplesOf(A) : r.embedding = q
                     /\ \A o \in EmbeddingRows(collection) \ SamplesOf(A) :
                            Cosine(q, o.embedding) < Cosine(q, q))
                    => /\ top_match'.registration_number = A
                       /\ top_match'.score = Cosine(q, q)
                       /\ (\A r, o \in SamplesOf(A) :
                               threshold <= Cosine(r.embedding, o.embedding))
                              => top_match'.score >= threshold
       /\ (pc = "meta" /\ pc' = "loop" /\ top_match.score >= threshold)
          => /\ last'.result = "Match"
             /\ last'.id = top_match.registration_number
             /\ last'.id # NoMatch]_vars

\* a person with two different samples, matched on one of them at a
\* threshold no larger than the similarity of the two, beside another person
C12_Witness ==
    /\ last.op = "match"
    /\ last.result = "Match"
    /\ \E r, o \in SamplesOf(last.id) :
          /\ r.embedding = last.query
          /\ o.embedding # r.embedding
          /\ threshold <= Cosine(r.embedding, o.embedding)
    /\ EmbeddingRows(collection) \ SamplesOf(last.id) # {}

\* C13: the flat-file matcher and the matcher over the collection decide
\* alike: over the same enrolled faces, with the session threshold equal to
\* the flat program's constant and no two persons equally near the face,
\* the same face gets the same id from both, or Unknown from both.
C13_SameDecision ==
    [][(/\ last.op = "match"
        /\ last'.op = "flat_match"
        /\ last'.query = last.query
        /\ threshold = FlatDistance
        /\ \A x \in Ids :
              {r.embedding : r \in {o \in EmbeddingRows(collection) :
                                       o.registration_number = x}}
                  = IF loaded_db[x] = <<>> THEN {} ELSE {loaded_db[x]}
        /\ \A x, y \in Ids :
              (x # y /\ loaded_db[x] # <<>> /\ loaded_db[y] # <<>>)
                  => Cosine(last.query, loaded_db[x]) # Cosine(last.query, loaded_db[y]))
        => last'.id = last.id]_vars

\* the ids with a Present row in the ledger of a date
PresentIds(date) ==
    {files[date][i][1] : i \in {j \in 2..Len(files[date]) :
                                   files[date][j][Len(files[date][j])] = "Present"}}

\* C14: a report for a date that has a ledger shows as Total the number of persons the store
\* lists, as Present the number of distinct ids with a Present row in the
\* ledger of the date, and as Absent the difference of the two; the Reports
\* tab and the dashboard both read the Present figure off a ledger that a
\* recognition session wrote.
C14_Summary ==
    [][(/\ last' # last
        /\ last'.op \in {"report", "dashboard"}
        /\ files[last'.stats.date] # <<>>)
        => LET date == last'.stats.date
           IN  /\ last'.stats.present = Cardinality(PresentIds(date))
               /\ last'.stats.absent = last'.stats.total - last'.stats.present
               /\ last'.op = "report"
                     => last'.stats.total = Cardinality(AllRegisteredPersons)]_vars

\* C15: the Absent figure the Reports tab shows for a date that has a ledger
\* is the number of persons enrolled now who have no Present row in that
\* ledger; it is never negative and the Present figure never exceeds the
\* Total.
C15_AbsentIsSetDifference ==
    [][(/\ last' # last
        /\ last'.op = "report"
        /\ files[last'.stats.date] # <<>>)
        => LET date == last'.stats.date
           IN  /\ last'.stats.absent
                      = Cardinality(AllRegisteredPersons \ PresentIds(date))
               /\ last'.stats.absent >= 0
               /\ last'.stats.present <= last'.stats.total]_vars

\* C16: every ledger file starts with the header ID, Name, Time, Status, and
\* every data row has those four fields with Status Present, whether the
\* recognition session or the flat-file loop made the file or added the row.
C16_LedgerFormat ==
    \A d \in Dates :
        files[d] # <<>>
            => /\ files[d][1] = Header
               /\ \A i \in 2..Len(files[d]) :
                      Len(files[d][i]) = 4 /\ files[d][i][4] = "Present"

\* C17: no step deletes, rewrites or reorders a row of a ledger: every file
\* keeps the rows it has, in their order, and grows at its end only; a file
\* gets its header when it is created, as its only row, and no row added
\* later is a header.
C17_AppendOnly ==
    [][\A d \in Dates :
          /\ Len(files'[d]) >= Len(files[d])
          /\ SubSeq(files'[d], 1, Len(files[d])) = files[d]
          /\ (files[d] = <<>> /\ files'[d] # <<>>) => files'[d] = <<Header>>
          /\ files[d] # <<>>
                => \A i \in (Len(files[d]) + 1)..Len(files'[d]) : files'[d][i] # Header]_vars

\* a second session has started on a date whose ledger held two data rows
C17_Witness ==
    /\ sessions = 2
    /\ pc = "loop"
    /\ recognized_persons = {}
    /\ attendance_file = today
    /\ Len(files[today]) = 3

\* a stop request is pending while a session is active
StopRequested == recognition_active /\ stop_recognition

\* the session has stopped and no recognition thread has the camera open
SessionStopped == ~recognition_active /\ wcap = {}

\* C18: with every recognition thread scheduled again and again, a stop
\* request pending while a session is active (Stop button, tab change,
\* closing the window) leads to the session being stopped with the camera
\* released by its thread, or to the end of the process when the window was
\* closed.
C18_StopLeadsToStopped ==
    StopRequested ~> (SessionStopped \/ window = "destroyed")

\* C19: at every moment at most one holder has the camera open, among the
\* preview of a tab and the recognition threads (the collection thread of
\* the application never opens it).
C19_OneCameraHolder == Cardinality(Holders) <= 1

\* C20: a connection that fails, at start or on retry, is reported as an
\* error and leaves no manager; a manager appears only through a retry the
\* user asks for; and while there is no manager, every enrol, remove and
\* list request is refused and leaves the collection and the sample files
\* as they were.
C20_NoManagerNoService ==
    /\ (last.op = "connect" /\ last.result = "ConnectionError") => db_manager = "None"
    /\ [][/\ (last' # last /\ last'.op = "retry" /\ ~milvus_up)
             => (last'.result = "ConnectionError" /\ db_manager' = "None")
          /\ (db_manager = "None" /\ db_manager' # "None")
             => (last' # last /\ last'.op = "retry" /\ last'.result = "ok")
          /\ (db_manager = "None" /\ last' # last
                /\ last'.op \in {"register", "remove", "list"})
             => /\ last'.result = "NoDatabase"
                /\ UNCHANGED <<collection, unsynced, samples_dir>>]_vars

\* an enrolment with samples at hand refused for want of a manager, with
\* the server up again and nobody having asked for a retry
C20_Witness ==
    /\ db_manager = "None"
    /\ milvus_up
    /\ last.op = "register"
    /\ last.result = "NoDatabase"
    /\ samples_dir[last.id] # <<>>

\* the metadata rows and the embedding rows the collection holds for an id
IdentityRows(x) == {r \in MetaRows(collection) : r.registration_number = x}

SampleRowsOf(x) == {r \in EmbeddingRows(collection) : r.registration_number = x}

\* C21: whatever enrolments and removals have been made, with or without
\* success, each store holds at most one identity record per id (one
\* metadata row in the collection, one line in face_db/metadata.txt), and
\* the sample_count of an identity record is at least 1 and is the number
\* of embedding rows the collection holds for the id.
C21_UniqueIdsAndSampleCount ==
    /\ \A x \in Ids :
          /\ Cardinality(IdentityRows(x)) <= 1
          /\ \A r \in IdentityRows(x) :
                r.sample_count >= 1 /\ r.sample_count = Cardinality(SampleRowsOf(x))
    /\ \A i, j \in 1..Len(metadata_txt) :
          metadata_txt[i][1] = metadata_txt[j][1] => i = j

C23_WorkerNeverTouchesUi == last.op = "ui" => last.id = "main thread"

\* C24: a frame read that fails during a running session is reported and
\* the session goes on: the worker is at the head of the next iteration, in
\* the loop, with the session still active.
C24_BadFrameContinues ==
    [][(last' # last /\ last'.op = "read" /\ last'.result = "Failed to capture image")
          => (pc' = "check" /\ recognition_active')]_vars

\* C25: a search that fails in the backend during a running session, however
\* often in a row, leaves the face Unknown for the frame, writes no ledger
\* row and leaves the worker in its frame loop with the session active.
C25_SearchFailureIsUnknown ==
    [][(pc = "loop" /\ ~milvus_up /\ last' # last /\ last'.op = "match")
          => /\ last'.result = "Unknown"
             /\ last'.id = NoMatch
             /\ files' = files
             /\ recognized_persons' = recognized_persons
             /\ pc' = "loop"
             /\ recognition_active']_vars

\* the search failed for a face whose owner is enrolled under the same face,
\* in a session that marks attendance
C25_Witness ==
    /\ pc = "loop"
    /\ ~milvus_up
    /\ recognition_active
    /\ mark_attendance
    /\ last.op = "match"
    /\ last.result = "Unknown"
    /\ last.best = -1
    /\ \E r \in EmbeddingRows(collection) : r.embedding = last.query

\* C26: whatever the store holds and whatever face is asked for, the top-1
\* hit a matcher works with is never a metadata row of the store (a row with
\* is_embedding = 0 and the dummy zero vector), in the matcher of the
\* recognition system and in those of the manager and the collector.
C26_NoMetadataRowMatched ==
    top_match # NoHit
       => /\ top_match.id[2] # "meta"
          /\ \A r \in MetaRows(collection) : r.id # top_match.id

\* a hit taken from a store that holds metadata rows, for a face no sample
\* of which is closer than the dummy vector would be
C26_Witness ==
    /\ pc = "meta"
    /\ top_match.score = 0
    /\ MetaRows(collection) # {}
    /\ \E r \in EmbeddingRows(collection) : r.id = top_match.id

\* C27: from its start to its end a session that runs with mark_attendance
\* disabled creates no ledger file and appends no row, whoever is matched:
\* every ledger stays as it was and the session's set of recorded persons
\* stays empty.
C27_NoMarkNoLedger ==
    [][((pc # "idle" /\ ~mark_attendance) \/ (pc' # "idle" /\ ~mark_attendance'))
          => /\ files' = files
             /\ recognized_persons' = {}
             /\ attendance_file' = 0]_vars

\* a person matched in a session with marking disabled, on a date without
\* a ledger
C27_Witness ==
    /\ pc = "loop"
    /\ ~mark_attendance
    /\ last.op = "match"
    /\ last.result = "Match"
    /\ recognized_persons = {}
    /\ files[today] = <<>>

\* C28: a stop request is never lost: once the flag is set in an active
\* session it is still set at every later moment of that session, whatever
\* the main thread (Stop button, tab change, a new session) and an ending
\* recognition thread do in between, so that the session's worker finds it
\* at its next test.
C28_StopRequestKept ==
    [][(recognition_active /\ stop_recognition /\ recognition_active')
          => stop_recognition']_vars

\* C29: whichever way the frame loop ends (stop request, failed read,
\* interface destroyed, exception in an iteration), the camera the session
\* opened is released: once the recognition thread has finished, no capture
\* of it is open.
C29_CameraReleased == pc = "idle" => wcap = {}

\* the recognition threads inside the frame loop
InLoop == {t \in 1..MaxSessions : wpc[t] \in {"loop", "frame", "release"}}

\* C30: at most one recognition thread is inside the frame loop at any
\* time; a recognition thread is started only while recognition_active is
\* false; and a thread sets recognition_active to false only when it has
\* left the loop and its capture is released.
C30_OneWorkerInLoop ==
    /\ [](Cardinality(InLoop) <= 1)
    /\ [][\A t \in 1..MaxSessions :
             /\ (wpc[t] = "none" /\ wpc'[t] = "start") => ~recognition_active
             /\ (wpc[t] = "flag1" /\ wpc'[t] = "flag2")
                   => (~recognition_active' /\ t \notin InLoop' /\ t \notin wcap)]_vars

====
